---- MODULE Spec2Model ----
(***************************************************************************)
(* A model of rust-kbuild: the symbol table (src/kconfig/symbol.rs), the   *)
(* .config reader and writer and the auto.conf / autoconf.h generators     *)
(* (src/config/*.rs), the menuconfig application (src/ui/app.rs) and the   *)
(* parser's handling of `source`.  Spec is a session with the table's      *)
(* operations; SpecIO applies the serializers to a table; SpecUI is the    *)
(* run loop of the application; SpecParse parses a tree of Kconfig files.  *)
(*                                                                         *)
(* Text is modelled as a sequence of one-character strings, so that the    *)
(* formatting of the writer and the parsing of the reader are computed     *)
(* character by character, as the code does.  An Option<String> is a       *)
(* sequence of length 0 (None) or 1 (Some(v)).                             *)
(***************************************************************************)
EXTENDS Naturals, Integers, Sequences, FiniteSets, TLC

VARIABLES
    symbols,    \* SymbolTable.symbols: name -> Symbol
    file,       \* the content of the file last written, a sequence of characters
    config,     \* the HashMap returned by the last ConfigReader::read
    pc,         \* where the session is
    last,       \* the last call on the table: its name, arguments and result
    app,        \* the MenuConfigApp, once it is created
    parse,      \* the parser: its inclusion stack and the entries it produced
    baseline    \* history: the value each item had when the application was
                \* created or last saved

vars == <<symbols, file, config, pc, last, app, parse, baseline>>

-----------------------------------------------------------------------------
(* Bounds of the model.                                                    *)

\* The largest number of symbols of a table the serializers are applied to.
MaxSymbols == 2

-----------------------------------------------------------------------------
(* Text: the operations of str the code uses.                              *)

None == <<>>
Some(v) == <<v>>

NL == "\n"

IsWhitespace(c) == c \in {" ", "\t", "\n", "\r"}

RECURSIVE TrimStart(_)
TrimStart(s) ==
    IF s # <<>> /\ IsWhitespace(Head(s)) THEN TrimStart(Tail(s)) ELSE s

RECURSIVE TrimEnd(_)
TrimEnd(s) ==
    IF s # <<>> /\ IsWhitespace(s[Len(s)])
    THEN TrimEnd(SubSeq(s, 1, Len(s) - 1))
    ELSE s

\* str::trim
Trim(s) == TrimEnd(TrimStart(s))

\* str::starts_with, str::ends_with
StartsWith(s, p) == Len(s) >= Len(p) /\ SubSeq(s, 1, Len(p)) = p
EndsWith(s, p) == Len(s) >= Len(p) /\ SubSeq(s, Len(s) - Len(p) + 1, Len(s)) = p

\* str::trim_start_matches(&str), str::trim_end_matches(&str): the pattern is
\* removed as often as it matches.
RECURSIVE TrimStartMatches(_, _)
TrimStartMatches(s, p) ==
    IF p # <<>> /\ StartsWith(s, p)
    THEN TrimStartMatches(SubSeq(s, Len(p) + 1, Len(s)), p)
    ELSE s

RECURSIVE TrimEndMatches(_, _)
TrimEndMatches(s, p) ==
    IF p # <<>> /\ EndsWith(s, p)
    THEN TrimEndMatches(SubSeq(s, 1, Len(s) - Len(p)), p)
    ELSE s

\* str::trim_matches(char)
TrimMatches(s, c) == TrimEndMatches(TrimStartMatches(s, <<c>>), <<c>>)

\* str::find(char): the first position of c in s, 0 when there is none.
Find(s, c) ==
    IF \E i \in 1..Len(s) : s[i] = c
    THEN CHOOSE i \in 1..Len(s) : s[i] = c /\ \A j \in 1..(i - 1) : s[j] # c
    ELSE 0

\* str::strip_prefix(..).unwrap_or(s)
StripPrefix(s, p) == IF StartsWith(s, p) THEN SubSeq(s, Len(p) + 1, Len(s)) ELSE s

\* str::lines: the text between line feeds, a trailing carriage return of a
\* line removed; a last line need not end in a line feed.
RECURSIVE Lines(_)
Lines(content) ==
    IF content = <<>> THEN <<>>
    ELSE LET n == Find(content, NL)
             raw == IF n = 0 THEN content ELSE SubSeq(content, 1, n - 1)
             line == IF raw # <<>> /\ raw[Len(raw)] = "\r"
                     THEN SubSeq(raw, 1, Len(raw) - 1) ELSE raw
             rest == IF n = 0 THEN <<>> ELSE SubSeq(content, n + 1, Len(content))
         IN  <<line>> \o Lines(rest)

\* writeln!(file, ...): the text and a line feed.
Writeln(text) == text \o <<NL>>

-----------------------------------------------------------------------------
(* The literals of the code.                                               *)

HashLine == <<"#">>
GeneratedLine ==
    <<"#", " ", "A", "u", "t", "o", "m", "a", "t", "i", "c", "a", "l", "l", "y",
      " ", "g", "e", "n", "e", "r", "a", "t", "e", "d", " ", "f", "i", "l", "e",
      ";", " ", "D", "O", " ", "N", "O", "T", " ", "E", "D", "I", "T", ".">>
GeneratedComment ==
    <<" ", "*", " ", "A", "u", "t", "o", "m", "a", "t", "i", "c", "a", "l", "l",
      "y", " ", "g", "e", "n", "e", "r", "a", "t", "e", "d", " ", "f", "i", "l",
      "e", ";", " ", "D", "O", " ", "N", "O", "T", " ", "E", "D", "I", "T", ".">>
HashConfig == <<"#", " ", "C", "O", "N", "F", "I", "G", "_">>
HashSpace == <<"#", " ">>
IsNotSet == <<" ", "i", "s", " ", "n", "o", "t", " ", "s", "e", "t">>
Define == <<"#", "d", "e", "f", "i", "n", "e", " ">>
ConfigPrefix == <<"C", "O", "N", "F", "I", "G", "_">>

VY == <<"y">>
VM == <<"m">>
VN == <<"n">>

-----------------------------------------------------------------------------
(* The symbol table.                                                       *)

SymbolType == {"Bool", "Tristate", "String", "Int", "Hex"}

\* Symbol { name, symbol_type, value, is_choice }
Symbol(name, symbol_type, value, is_choice) ==
    [name |-> name, symbol_type |-> symbol_type, value |-> value,
     is_choice |-> is_choice]

\* SymbolTable::new
NewTable == <<>>

\* An add_symbol that replaces a registered symbol (insert for or_insert).
AddSymbolReplace(table, name, symbol_type) ==
    [n \in DOMAIN table \cup {name} |->
        IF n = name THEN Symbol(name, symbol_type, None, FALSE) ELSE table[n]]

\* SymbolTable::add_symbol: entry(name).or_insert(..) keeps a registered symbol.
AddSymbolTo(table, name, symbol_type) ==
    IF name \in DOMAIN table THEN table
    ELSE [n \in DOMAIN table \cup {name} |->
            IF n = name THEN Symbol(name, symbol_type, None, FALSE) ELSE table[n]]

\* A set_value that registers an unknown name as a String symbol.
SetValueOrInsert(table, name, value) ==
    [n \in DOMAIN table \cup {name} |->
        IF n = name
        THEN Symbol(name, IF name \in DOMAIN table THEN table[name].symbol_type
                          ELSE "String", Some(value), FALSE)
        ELSE table[n]]

\* A set_value that stores the value in every registered symbol.
SetValueInAll(table, name, value) ==
    IF name \in DOMAIN table
    THEN [n \in DOMAIN table |-> [table[n] EXCEPT !.value = Some(value)]]
    ELSE table

\* SymbolTable::set_value: any string is stored; an unknown name is ignored.
SetValueIn(table, name, value) ==
    IF name \in DOMAIN table
    THEN [table EXCEPT ![name].value = Some(value)]
    ELSE table

\* SymbolTable::get_value
GetValue(table, name) ==
    IF name \in DOMAIN table THEN table[name].value ELSE None

\* An is_enabled that takes only "y" as on.
IsEnabledOnlyY(table, name) ==
    /\ name \in DOMAIN table
    /\ table[name].value # None
    /\ table[name].value[1] = VY

\* SymbolTable::is_enabled
IsEnabled(table, name) ==
    /\ name \in DOMAIN table
    /\ table[name].value # None
    /\ table[name].value[1] \in {VY, VM}

\* SymbolTable::all_symbols: the iteration order of a HashMap is any order of
\* its keys.
AllSymbolsOrders(table) ==
    LET n == Cardinality(DOMAIN table)
    IN  {o \in [1..n -> DOMAIN table] : \A i, j \in 1..n : i # j => o[i] # o[j]}

-----------------------------------------------------------------------------
(* ConfigWriter::write                                                     *)

\* A writer that leaves out the symbols without a value.
WriterLineSkipUnset(name, symbol) ==
    IF symbol.value # None
    THEN LET value == symbol.value[1]
         IN  IF value \in {VY, VM} THEN Writeln(name \o <<"=">> \o value)
             ELSE IF value = VN THEN Writeln(HashSpace \o name \o IsNotSet)
             ELSE Writeln(name \o <<"=", "\"">> \o value \o <<"\"">>)
    ELSE <<>>

WriterLine(name, symbol) ==
    IF symbol.value # None
    THEN LET value == symbol.value[1]
         IN  IF value \in {VY, VM} THEN Writeln(name \o <<"=">> \o value)
             ELSE IF value = VN THEN Writeln(HashSpace \o name \o IsNotSet)
             ELSE Writeln(name \o <<"=", "\"">> \o value \o <<"\"">>)
    ELSE Writeln(HashSpace \o name \o IsNotSet)

RECURSIVE WriterBody(_, _, _)
WriterBody(table, order, i) ==
    IF i > Len(order) THEN <<>>
    ELSE WriterLine(order[i], table[order[i]]) \o WriterBody(table, order, i + 1)

WriterHeader == Writeln(HashLine) \o Writeln(GeneratedLine) \o Writeln(HashLine)

ConfigWriterWrite(table, order) == WriterHeader \o WriterBody(table, order, 1)

-----------------------------------------------------------------------------
(* ConfigReader::read                                                      *)

Insert(map, key, value) ==
    [k \in DOMAIN map \cup {key} |-> IF k = key THEN value ELSE map[k]]

\* The position of the last c in s, 0 when there is none.
RECURSIVE FindLast(_, _)
FindLast(s, c) ==
    IF s = <<>> THEN 0
    ELSE IF s[Len(s)] = c THEN Len(s)
    ELSE FindLast(SubSeq(s, 1, Len(s) - 1), c)

\* A reader that splits each line at its last '='.
ReadLineLastEq(map, rawline) ==
    LET line == Trim(rawline) IN
    IF line = <<>> \/ StartsWith(line, <<"#">>) THEN map
    ELSE LET pos == FindLast(line, "=") IN
         IF pos # 0
         THEN LET name == Trim(SubSeq(line, 1, pos - 1))
                  value == TrimMatches(Trim(SubSeq(line, pos + 1, Len(line))), "\"")
              IN  Insert(map, name, value)
         ELSE map

\* The body of the loop over content.lines().
ReadLine(map, rawline) ==
    LET line == Trim(rawline) IN
    IF line = <<>> \/ StartsWith(line, <<"#">>) THEN map
    ELSE IF StartsWith(line, HashConfig) /\ EndsWith(line, IsNotSet)
    THEN Insert(map, TrimEndMatches(TrimStartMatches(line, HashSpace), IsNotSet), VN)
    ELSE LET pos == Find(line, "=") IN
         IF pos # 0
         THEN LET name == Trim(SubSeq(line, 1, pos - 1))
                  value == TrimMatches(Trim(SubSeq(line, pos + 1, Len(line))), "\"")
              IN  Insert(map, name, value)
         ELSE map

RECURSIVE ReadLines(_, _, _)
ReadLines(map, lines, i) ==
    IF i > Len(lines) THEN map
    ELSE ReadLines(ReadLine(map, lines[i]), lines, i + 1)

ConfigReaderRead(content) == ReadLines(<<>>, Lines(content), 1)

-----------------------------------------------------------------------------
(* ConfigGenerator                                                         *)

AutoConfLine(name, symbol) ==
    LET clean_name == StripPrefix(name, ConfigPrefix) IN
    IF symbol.value # None /\ symbol.value[1] # VN
    THEN Writeln(clean_name \o <<"=">> \o symbol.value[1])
    ELSE <<>>

RECURSIVE AutoConfBody(_, _, _)
AutoConfBody(table, order, i) ==
    IF i > Len(order) THEN <<>>
    ELSE AutoConfLine(order[i], table[order[i]]) \o AutoConfBody(table, order, i + 1)

GenerateAutoConf(table, order) == WriterHeader \o AutoConfBody(table, order, 1)

AutoconfHLine(name, symbol) ==
    LET clean_name == StripPrefix(name, ConfigPrefix) IN
    IF symbol.value = None THEN <<>>
    ELSE LET value == symbol.value[1]
         IN  IF value = VY THEN Writeln(Define \o clean_name \o <<" ", "1">>)
             ELSE IF value = VM THEN Writeln(Define \o clean_name \o <<" ", "1">>)
             ELSE IF value = VN THEN <<>>
             ELSE Writeln(Define \o clean_name \o <<" ", "\"">> \o value \o <<"\"">>)

RECURSIVE AutoconfHBody(_, _, _)
AutoconfHBody(table, order, i) ==
    IF i > Len(order) THEN <<>>
    ELSE AutoconfHLine(order[i], table[order[i]]) \o AutoconfHBody(table, order, i + 1)

AutoconfHHeader ==
    Writeln(<<"/", "*">>) \o Writeln(GeneratedComment) \o Writeln(<<" ", "*", "/">>)
    \o Writeln(<<>>)

GenerateAutoconfH(table, order) == AutoconfHHeader \o AutoconfHBody(table, order, 1)

-----------------------------------------------------------------------------
(* The inputs of the serializers: the names, and the types and values a    *)
(* table holds when it is written.                                         *)

CONFIG_A == <<"C", "O", "N", "F", "I", "G", "_", "A">>
CONFIG_B == <<"C", "O", "N", "F", "I", "G", "_", "B">>
DEBUG == <<"D", "E", "B", "U", "G">>

IONames == {CONFIG_A, CONFIG_B, DEBUG}

V42 == <<"4", "2">>
VHex == <<"0", "x", "1", "F">>
VHi == <<"h", "i">>
VQuoteA == <<"\"", "a">>
VAQuoteB == <<"a", "\"", "b">>
VSpaceA == <<" ", "a">>
VAEqB == <<"a", "=", "b">>

StringValues == {VHi, VY, VN, VQuoteA, VAQuoteB, VSpaceA, VAEqB, <<>>}

\* The (type, value) pairs of the symbols of a table that is serialized.
IOSymbols ==
    ({"Bool"} \X {None, Some(VY), Some(VN)})
    \cup ({"Tristate"} \X {Some(VY), Some(VM), Some(VN)})
    \cup ({"Int"} \X {Some(V42)})
    \cup ({"Hex"} \X {Some(VHex)})
    \cup ({"String"} \X {Some(v) : v \in StringValues})

IOTables ==
    UNION {[names -> IOSymbols] :
             names \in {ns \in SUBSET IONames : Cardinality(ns) <= MaxSymbols}}

TableOf(t) == [n \in DOMAIN t |-> Symbol(n, t[n][1], t[n][2], FALSE)]

\* Files that were not written by ConfigWriter: a hand-edited .config.
ExternalFiles ==
    {Writeln(CONFIG_A \o <<"=">> \o VY) \o Writeln(<<>>)
        \o Writeln(HashSpace \o CONFIG_B \o IsNotSet),
     Writeln(<<" ">> \o CONFIG_A \o <<" ", "=", " ">> \o V42 \o <<" ">>)
        \o Writeln(<<"#", " ", "n", "o", "t", "e">>)
        \o CONFIG_B \o <<"=", "\"">> \o VHi \o <<"\"">>,
     Writeln(DEBUG) \o Writeln(CONFIG_A \o <<"=">> \o VAEqB)
        \o Writeln(CONFIG_A \o <<"=">> \o VM)}

NoOp == [op |-> "none"]

\* No application has been created; no file is being parsed.
NoApp == [created |-> FALSE]
NoParse == [started |-> FALSE]

InitIO ==
    /\ symbols \in {TableOf(t) : t \in IOTables}
    /\ file = <<>>
    /\ config = <<>>
    /\ pc = "table"
    /\ last = NoOp
    /\ app = NoApp
    /\ parse = NoParse
    /\ baseline = <<>>

\* ConfigWriter::write(path, &symbols)
Write ==
    /\ pc = "table"
    /\ \E order \in AllSymbolsOrders(symbols) :
           file' = ConfigWriterWrite(symbols, order)
    /\ pc' = "written"
    /\ UNCHANGED <<symbols, config, last, app, parse, baseline>>

\* ConfigReader::read(path) of the file ConfigWriter::write wrote.
Read ==
    /\ pc = "written"
    /\ config' = ConfigReaderRead(file)
    /\ pc' = "read"
    /\ UNCHANGED <<symbols, file, last, app, parse, baseline>>

\* A file from elsewhere is put at the path.
LoadExternal ==
    /\ pc = "table"
    /\ file' \in ExternalFiles
    /\ pc' = "external"
    /\ UNCHANGED <<symbols, config, last, app, parse, baseline>>

\* ConfigReader::read(path) of a file from elsewhere.
ReadExternal ==
    /\ pc = "external"
    /\ config' = ConfigReaderRead(file)
    /\ pc' = "read_external"
    /\ UNCHANGED <<symbols, file, last, app, parse, baseline>>

\* ConfigGenerator::generate_auto_conf(path, &symbols)
AutoConf ==
    /\ pc = "table"
    /\ \E order \in AllSymbolsOrders(symbols) :
           file' = GenerateAutoConf(symbols, order)
    /\ pc' = "auto_conf"
    /\ UNCHANGED <<symbols, config, last, app, parse, baseline>>

\* ConfigGenerator::generate_autoconf_h(path, &symbols)
AutoconfH ==
    /\ pc = "table"
    /\ \E order \in AllSymbolsOrders(symbols) :
           file' = GenerateAutoconfH(symbols, order)
    /\ pc' = "autoconf_h"
    /\ UNCHANGED <<symbols, config, last, app, parse, baseline>>

NextIO == Write \/ Read \/ LoadExternal \/ ReadExternal \/ AutoConf \/ AutoconfH

SpecIO == InitIO /\ [][NextIO]_vars

-----------------------------------------------------------------------------
(* A session with the symbol table: symbols are registered and values are  *)
(* set through its public operations, in any order.                        *)

Names == {CONFIG_A, CONFIG_B, DEBUG}

\* The types a caller registers each name with: the type its Kconfig entry
\* declares, and the type of a conflicting second declaration.
DeclaredTypes(name) ==
    IF name = CONFIG_A THEN {"Bool", "Tristate"}
    ELSE IF name = CONFIG_B THEN {"Bool", "String"}
    ELSE {"Tristate", "Int", "Hex"}

\* The strings a caller passes to set_value.
Values == {VY, VM, VN, V42, VHex, VHi}

Init ==
    /\ symbols = NewTable
    /\ file = <<>>
    /\ config = <<>>
    /\ pc = "table"
    /\ last = NoOp
    /\ app = NoApp
    /\ parse = NoParse
    /\ baseline = <<>>

\* symbols.add_symbol(name, symbol_type)
AddSymbol ==
    /\ pc = "table"
    /\ \E name \in Names : \E symbol_type \in DeclaredTypes(name) :
           /\ symbols' = AddSymbolTo(symbols, name, symbol_type)
           /\ last' = [op |-> "add_symbol", name |-> name, arg |-> symbol_type,
                       result |-> "unit"]
    /\ UNCHANGED <<file, config, pc, app, parse, baseline>>

\* symbols.set_value(name, value): the function returns (), never an error.
SetValue ==
    /\ pc = "table"
    /\ \E name \in Names, value \in Values :
           /\ symbols' = SetValueIn(symbols, name, value)
           /\ last' = [op |-> "set_value", name |-> name, arg |-> value,
                       result |-> "unit"]
    /\ UNCHANGED <<file, config, pc, app, parse, baseline>>

Next == AddSymbol \/ SetValue

Spec == Init /\ [][Next]_vars

-----------------------------------------------------------------------------
(* The menuconfig application, src/ui/app.rs: the values of its items.     *)

\* ui::state::ConfigValue and TristateValue: Bool(b), Tristate(t), String(s),
\* Int(i), Hex(h).  A value is a record of its variant and the variant's
\* content, the fields of the other variants left at a fixed filler.
ConfigValue(variant, b, t, s, i) ==
    [variant |-> variant, b |-> b, t |-> t, s |-> s, i |-> i]

CVBool(b) == ConfigValue("Bool", b, "No", <<>>, 0)
CVTristate(t) == ConfigValue("Tristate", FALSE, t, <<>>, 0)
CVString(s) == ConfigValue("String", FALSE, "No", s, 0)
CVInt(i) == ConfigValue("Int", FALSE, "No", <<>>, i)
CVHex(h) == ConfigValue("Hex", FALSE, "No", h, 0)

DigitChars == <<"0", "1", "2", "3", "4", "5", "6", "7", "8", "9">>

DigitValue(c) == (CHOOSE i \in 1..10 : DigitChars[i] = c) - 1

RECURSIVE DigitsValue(_)
DigitsValue(d) ==
    IF d = <<>> THEN 0
    ELSE 10 * DigitsValue(SubSeq(d, 1, Len(d) - 1)) + DigitValue(d[Len(d)])

\* str::parse::<i64>().unwrap_or(0): an optional sign and decimal digits,
\* anything else reads as 0.
ParseIntOrZero(v) ==
    LET signed == v # <<>> /\ v[1] \in {"-", "+"}
        d == IF signed THEN Tail(v) ELSE v
    IN  IF d # <<>> /\ \A i \in 1..Len(d) : \E j \in 1..10 : DigitChars[j] = d[i]
        THEN IF signed /\ v[1] = "-" THEN 0 - DigitsValue(d) ELSE DigitsValue(d)
        ELSE 0

RECURSIVE NatToString(_)
NatToString(i) ==
    IF i < 10 THEN <<DigitChars[i + 1]>>
    ELSE NatToString(i \div 10) \o <<DigitChars[(i % 10) + 1]>>

\* i64::to_string
IntToString(i) == IF i < 0 THEN <<"-">> \o NatToString(0 - i) ELSE NatToString(i)

\* MenuConfigApp::parse_value
ParseValue(value, symbol_type) ==
    IF symbol_type = "Bool" THEN CVBool(value = VY)
    ELSE IF symbol_type = "Tristate"
    THEN IF value = VY THEN CVTristate("Yes")
         ELSE IF value = VM THEN CVTristate("Module")
         ELSE CVTristate("No")
    ELSE IF symbol_type = "String" THEN CVString(TrimMatches(value, "\""))
    ELSE IF symbol_type = "Int" THEN CVInt(ParseIntOrZero(value))
    ELSE CVHex(value)

\* MenuConfigApp::new, the value of an item the table has no value for.
DefaultValue(symbol_type) ==
    IF symbol_type = "Bool" THEN CVBool(FALSE)
    ELSE IF symbol_type = "Tristate" THEN CVTristate("No")
    ELSE IF symbol_type = "String" THEN CVString(<<>>)
    ELSE IF symbol_type = "Int" THEN CVInt(0)
    ELSE CVHex(<<"0", "x", "0">>)

\* toggle_current_item: the value after Space, None for a value that does
\* not toggle.
ToggledValue(value) ==
    IF value = None THEN None
    ELSE IF value[1].variant = "Bool" THEN Some(CVBool(~value[1].b))
    ELSE IF value[1].variant = "Tristate"
    THEN Some(CVTristate(IF value[1].t = "No" THEN "Yes"
                         ELSE IF value[1].t = "Yes" THEN "Module"
                         ELSE "No"))
    ELSE None

\* toggle_current_item: the string stored in the table for a value.
ValueStr(new_val) ==
    IF new_val.variant = "Bool" THEN (IF new_val.b THEN VY ELSE VN)
    ELSE IF new_val.variant = "Tristate"
    THEN IF new_val.t = "Yes" THEN VY
         ELSE IF new_val.t = "No" THEN VN
         ELSE VM
    ELSE IF new_val.variant = "String" THEN <<"\"">> \o new_val.s \o <<"\"">>
    ELSE IF new_val.variant = "Int" THEN IntToString(new_val.i)
    ELSE new_val.s

-----------------------------------------------------------------------------
(* The entries the application is built from and its items.                *)

MENU == <<"M", "E", "N", "U">>

\* kconfig::ast::Entry, as far as the application reads it: its kind, its
\* name, its declared type, its default (None when it declares none) and
\* the entries inside it.
ConfigEntry(id, symbol_type, default) ==
    [kind |-> "Config", id |-> id, symbol_type |-> symbol_type,
     default |-> default, entries |-> <<>>]
MenuConfigEntry(id, symbol_type, default, entries) ==
    [kind |-> "MenuConfig", id |-> id, symbol_type |-> symbol_type,
     default |-> default, entries |-> entries]
MenuEntry(id, entries) ==
    [kind |-> "Menu", id |-> id, symbol_type |-> "none",
     default |-> None, entries |-> entries]

\* config CONFIG_A: bool, default n; menu MENU { config CONFIG_B: string,
\* default "hi" }
SampleEntries ==
    <<ConfigEntry(CONFIG_A, "Bool", Some(VN)),
      MenuEntry(MENU, <<ConfigEntry(CONFIG_B, "String", Some(VHi))>>)>>

\* config CONFIG_A: int; menuconfig DEBUG: tristate, default n { config
\* CONFIG_B: bool }
TypedEntries ==
    <<ConfigEntry(CONFIG_A, "Int", None),
      MenuConfigEntry(DEBUG, "Tristate", Some(VN),
                      <<ConfigEntry(CONFIG_B, "Bool", None)>>)>>

\* The tables the application is created with, name -> (type, value): one
\* with a Bool value, one with a symbol without a value, one with Int and
\* Tristate values.
BoolTable == CONFIG_A :> <<"Bool", Some(VY)>>
UnsetTable == CONFIG_A :> <<"Bool", None>>
TypedTable ==
    (CONFIG_A :> <<"Int", Some(V42)>>) @@ (DEBUG :> <<"Tristate", Some(VM)>>)

\* The arguments MenuConfigApp::new is called with: an entry list and the
\* table of its symbols, or of some of them, or an empty table.
UIArguments ==
    {<<SampleEntries, <<>>>>, <<SampleEntries, BoolTable>>,
     <<SampleEntries, UnsetTable>>, <<TypedEntries, TypedTable>>,
     <<TypedEntries, <<>>>>, <<<<>>, <<>>>>}

\* ui::state::MenuItem of an entry, as ConfigState::build_from_entries makes
\* it from the entry alone: its value is the entry's default, None when the
\* entry declares none.
MenuItem(entry) ==
    [id |-> entry.id, kind |-> entry.kind, symbol_type |-> entry.symbol_type,
     value |-> IF entry.default = None THEN None
               ELSE Some(ParseValue(entry.default[1], entry.symbol_type)),
     has_children |-> entry.entries # <<>>]

MenuItems(entries) == [i \in 1..Len(entries) |-> MenuItem(entries[i])]

\* ConfigState::build_from_entries, all_items: every item, an entry before
\* the entries inside it.
RECURSIVE BuildAllItems(_)
BuildAllItems(entries) ==
    IF entries = <<>> THEN <<>>
    ELSE <<MenuItem(Head(entries))>> \o BuildAllItems(Head(entries).entries)
         \o BuildAllItems(Tail(entries))

\* The entries, at any depth, that have entries inside them.
RECURSIVE SubMenus(_)
SubMenus(entries) ==
    IF entries = <<>> THEN {}
    ELSE (IF Head(entries).entries # <<>> THEN {Head(entries)} ELSE {})
         \cup SubMenus(Head(entries).entries) \cup SubMenus(Tail(entries))

\* The key of the top-level list in menu_tree.
RootKey == <<>>

\* ConfigState::build_from_entries, menu_tree: the list of the items of the
\* top level and of each menu, its own copies of the items.
BuildMenuTree(entries) ==
    [key \in {RootKey} \cup {m.id : m \in SubMenus(entries)} |->
        IF key = RootKey THEN MenuItems(entries)
        ELSE MenuItems((CHOOSE m \in SubMenus(entries) : m.id = key).entries)]

\* ConfigState::get_items_for_path: the list of the menu the path ends in.
GetItemsForPath(menu_tree, path) ==
    LET key == IF path = <<>> THEN RootKey ELSE path[Len(path)]
    IN  IF key \in DOMAIN menu_tree THEN menu_tree[key] ELSE <<>>

LowerCase == <<"a", "b", "c", "d", "e", "f", "g", "h", "i", "j", "k", "l", "m",
               "n", "o", "p", "q", "r", "s", "t", "u", "v", "w", "x", "y", "z">>
UpperCase == <<"A", "B", "C", "D", "E", "F", "G", "H", "I", "J", "K", "L", "M",
               "N", "O", "P", "Q", "R", "S", "T", "U", "V", "W", "X", "Y", "Z">>

ToLower(c) ==
    IF \E i \in 1..26 : UpperCase[i] = c
    THEN LowerCase[CHOOSE i \in 1..26 : UpperCase[i] = c]
    ELSE c

\* The characters of q occur in t in their order, whatever their case.
RECURSIVE FuzzyMatch(_, _)
FuzzyMatch(q, t) ==
    IF q = <<>> THEN TRUE
    ELSE IF t = <<>> THEN FALSE
    ELSE IF ToLower(q[1]) = ToLower(t[1]) THEN FuzzyMatch(Tail(q), Tail(t))
    ELSE FuzzyMatch(q, Tail(t))

\* FuzzySearcher::new(query).search(all_items): the items the query matches.
FuzzySearch(query, all_items) ==
    LET Matches(item) == FuzzyMatch(query, item.id)
    IN  SelectSeq(all_items, Matches)

\* MenuConfigApp::new, the loop over all_items: a Config or MenuConfig item
\* gets the table's value parsed by its type, or its type's default.
InitialItem(item, table) ==
    IF item.kind \in {"Config", "MenuConfig"}
    THEN IF GetValue(table, item.id) # None
         THEN [item EXCEPT !.value =
                   Some(ParseValue(GetValue(table, item.id)[1], item.symbol_type))]
         ELSE [item EXCEPT !.value = Some(DefaultValue(item.symbol_type))]
    ELSE item

\* MenuConfigApp::new, original_values: the table's string of every Config
\* or MenuConfig item the table has a value for.
InitialOriginalValues(all_items, table) ==
    [id \in {all_items[i].id : i \in
               {j \in 1..Len(all_items) :
                    /\ all_items[j].kind \in {"Config", "MenuConfig"}
                    /\ GetValue(table, all_items[j].id) # None}} |->
        GetValue(table, id)[1]]

\* MenuConfigApp::new(entries, symbol_table)
NewApp(entries, table) ==
    LET built == BuildAllItems(entries) IN
    [all_items |-> [i \in 1..Len(built) |-> InitialItem(built[i], table)],
     menu_tree |-> BuildMenuTree(entries),
     original_values |-> InitialOriginalValues(built, table),
     modified_symbols |-> <<>>,
     current_path |-> <<>>,
     selected_index |-> 0,
     scroll_offset |-> 0,
     search_active |-> FALSE,
     search_query |-> <<>>,
     focus |-> "MenuTree",
     show_help_modal |-> FALSE,
     show_save_dialog |-> FALSE,
     status_message |-> None]

-----------------------------------------------------------------------------
(* The application's operations on its state `a`.                          *)

\* The largest number of characters typed into the search bar.
MaxQuery == 1

\* page_up and page_down move the selection by this many items.
PageSize == 10

ToggledSuffix == <<" ", "t", "o", "g", "g", "l", "e", "d">>
SavedMessage ==
    <<" ", "C", "o", "n", "f", "i", "g", "u", "r", "a", "t", "i", "o", 
    "n", " ", "s", "a", "v", "e", "d", " ", "t", "o", " ", ".", "c", "o", 
    "n", "f", "i", "g">>

\* The list on the screen: the search results while a query is typed, else
\* the list of the current menu.
DisplayedItems(a) ==
    IF a.search_active /\ a.search_query # <<>>
    THEN FuzzySearch(a.search_query, a.all_items)
    ELSE GetItemsForPath(a.menu_tree, a.current_path)

\* render_menu_tree: a selected index past the end of a non-empty list is
\* put on its last item.
Render(a) ==
    LET items == DisplayedItems(a) IN
    IF items # <<>> /\ a.selected_index >= Len(items)
    THEN [a EXCEPT !.selected_index = Len(items) - 1]
    ELSE a

MoveUp(a) ==
    IF a.selected_index > 0
    THEN [a EXCEPT !.selected_index = a.selected_index - 1]
    ELSE a

\* A move_down that does not look at the length of the list.
MoveDownPastEnd(a) == [a EXCEPT !.selected_index = a.selected_index + 1]

MoveDown(a) ==
    LET items == DisplayedItems(a) IN
    IF items # <<>> /\ a.selected_index < Len(items) - 1
    THEN [a EXCEPT !.selected_index = a.selected_index + 1]
    ELSE a

EnterSubmenu(a) ==
    LET items == GetItemsForPath(a.menu_tree, a.current_path) IN
    IF items = <<>> \/ a.selected_index >= Len(items) THEN a
    ELSE LET item == items[a.selected_index + 1] IN
         IF item.has_children
         THEN [a EXCEPT !.current_path = Append(a.current_path, item.id),
                        !.selected_index = 0,
                        !.scroll_offset = 0]
         ELSE a

GoBack(a) ==
    IF a.current_path # <<>>
    THEN [a EXCEPT !.current_path = SubSeq(a.current_path, 1, Len(a.current_path) - 1),
                   !.selected_index = 0,
                   !.scroll_offset = 0]
    ELSE a

\* usize::saturating_sub(10)
PageUp(a) ==
    [a EXCEPT !.selected_index =
         IF a.selected_index >= PageSize THEN a.selected_index - PageSize ELSE 0]

PageDown(a) ==
    LET items == DisplayedItems(a) IN
    IF items # <<>>
    THEN [a EXCEPT !.selected_index =
              IF a.selected_index + PageSize < Len(items) - 1
              THEN a.selected_index + PageSize
              ELSE Len(items) - 1]
    ELSE a

JumpToFirst(a) == [a EXCEPT !.selected_index = 0]

JumpToLast(a) ==
    LET items == DisplayedItems(a) IN
    IF items # <<>> THEN [a EXCEPT !.selected_index = Len(items) - 1] ELSE a

\* The loop `for item in items { if item.id == id { item.value = ..; break } }`:
\* the first item of the list with the id gets the value.
SetFirstValue(items, id, value) ==
    IF \E i \in 1..Len(items) : items[i].id = id
    THEN LET first == CHOOSE i \in 1..Len(items) :
                          /\ items[i].id = id
                          /\ \A j \in 1..(i - 1) : items[j].id # id
         IN  [items EXCEPT ![first].value = value]
    ELSE items

\* HashMap::remove
Remove(map, key) == [k \in DOMAIN map \ {key} |-> map[k]]

\* SymbolTable::set_value_tracked: stores the value as set_value does.
SetValueTracked(table, name, value) == SetValueIn(table, name, value)

\* toggle_current_item: the application and the table after Space.
ToggleCurrentItem(a, table) ==
    LET items == DisplayedItems(a) IN
    IF items = <<>> \/ a.selected_index >= Len(items)
    THEN [app |-> a, symbols |-> table]
    ELSE LET item == items[a.selected_index + 1]
             item_id == item.id
             new_value == ToggledValue(item.value)
         IN  IF new_value = None THEN [app |-> a, symbols |-> table]
             ELSE LET value_str == ValueStr(new_value[1])
                      original == IF item_id \in DOMAIN a.original_values
                                  THEN Some(a.original_values[item_id])
                                  ELSE None
                  IN  [app |->
                         [a EXCEPT
                            !.all_items = SetFirstValue(a.all_items, item_id, new_value),
                            !.menu_tree =
                                [key \in DOMAIN a.menu_tree |->
                                    SetFirstValue(a.menu_tree[key], item_id, new_value)],
                            !.modified_symbols =
                                IF original # Some(value_str)
                                THEN Insert(a.modified_symbols, item_id, value_str)
                                ELSE Remove(a.modified_symbols, item_id),
                            !.status_message = Some(<<" ">> \o item_id \o ToggledSuffix)],
                       symbols |-> SetValueTracked(table, item_id, value_str)]

\* A save_config that does not update original_values.
SaveConfigKeepsOriginals(a, table) ==
    [a EXCEPT !.modified_symbols = <<>>,
              !.status_message = Some(SavedMessage)]

\* save_config after ConfigWriter::write succeeded: nothing is modified any
\* more and original_values takes the value of every symbol that has one.
SaveConfig(a, table) ==
    [a EXCEPT
       !.modified_symbols = <<>>,
       !.original_values =
           [n \in DOMAIN a.original_values
                    \cup {m \in DOMAIN table : table[m].value # None} |->
               IF n \in DOMAIN table /\ table[n].value # None
               THEN table[n].value[1]
               ELSE a.original_values[n]],
       !.status_message = Some(SavedMessage)]

-----------------------------------------------------------------------------
(* Key events and the run loop.                                            *)

\* crossterm::event::KeyCode
Char(c) == [code |-> "Char", c |-> c]
Key(code) == [code |-> code, c |-> ""]

\* The keys that are pressed: the characters and keys the handlers name in
\* their first spelling, and a key (F1) that they do not name.
Keys ==
    {Char(c) : c \in {"q", "s", "?", "/", " ", "y", "n"}}
    \cup {Key(code) : code \in {"Up", "Down", "Left", "Right", "Esc", "Enter",
                                "PageUp", "PageDown", "Home", "End",
                                "Backspace", "F1"}}

\* What a handler leaves behind: the application, the table, the file
\* .config, the handler's result (Continue, Quit, or Err for `?`), and
\* whether save_config ran to its end.
Outcome(a, table, content, result) ==
    [app |-> a, symbols |-> table, file |-> content, result |-> result,
     saved |-> FALSE]

Saved(a, table, content, result) ==
    [app |-> a, symbols |-> table, file |-> content, result |-> result,
     saved |-> TRUE]

\* A save dialog that Esc leaves by quitting.
HandleSaveDialogKeyEscQuits(a, table, content, key, written, save_ok) ==
    IF key \in {Char("y"), Char("Y")}
    THEN IF save_ok
         THEN Saved([SaveConfig(a, table) EXCEPT !.show_save_dialog = FALSE],
                    table, written, "Quit")
         ELSE Outcome(a, table, content, "Err")
    ELSE IF key \in {Char("n"), Char("N"), Key("Esc")}
    THEN Outcome([a EXCEPT !.show_save_dialog = FALSE], table, content, "Quit")
    ELSE Outcome(a, table, content, "Continue")

\* A save dialog that every key it does not name closes.
HandleSaveDialogKeyAnyKeyCloses(a, table, content, key, written, save_ok) ==
    IF key \in {Char("y"), Char("Y")}
    THEN IF save_ok
         THEN Saved([SaveConfig(a, table) EXCEPT !.show_save_dialog = FALSE],
                    table, written, "Quit")
         ELSE Outcome(a, table, content, "Err")
    ELSE IF key \in {Char("n"), Char("N")}
    THEN Outcome([a EXCEPT !.show_save_dialog = FALSE], table, content, "Quit")
    ELSE Outcome([a EXCEPT !.show_save_dialog = FALSE], table, content, "Continue")

\* handle_save_dialog_key; `written` is what ConfigWriter::write puts in
\* .config, `save_ok` whether it succeeds.
HandleSaveDialogKey(a, table, content, key, written, save_ok) ==
    IF key \in {Char("y"), Char("Y")}
    THEN IF save_ok
         THEN Saved([SaveConfig(a, table) EXCEPT !.show_save_dialog = FALSE],
                    table, written, "Quit")
         ELSE Outcome(a, table, content, "Err")
    ELSE IF key \in {Char("n"), Char("N")}
    THEN Outcome([a EXCEPT !.show_save_dialog = FALSE], table, content, "Quit")
    ELSE IF key = Key("Esc")
    THEN Outcome([a EXCEPT !.show_save_dialog = FALSE], table, content, "Continue")
    ELSE Outcome(a, table, content, "Continue")

\* A handle_search_key whose Enter puts the selection on the first item.
HandleSearchKeyEnterResets(a, key) ==
    IF key = Key("Esc")
    THEN [a EXCEPT !.search_active = FALSE,
                   !.search_query = <<>>,
                   !.focus = "MenuTree",
                   !.selected_index = 0]
    ELSE IF key = Key("Enter")
    THEN [a EXCEPT !.search_active = FALSE, !.focus = "MenuTree",
                   !.selected_index = 0]
    ELSE IF key = Key("Backspace")
    THEN [a EXCEPT !.search_query =
                       IF a.search_query = <<>> THEN <<>>
                       ELSE SubSeq(a.search_query, 1, Len(a.search_query) - 1),
                   !.selected_index = 0]
    ELSE IF key.code = "Char"
    THEN [a EXCEPT !.search_query = Append(a.search_query, key.c),
                   !.selected_index = 0]
    ELSE a

\* A handle_search_key whose Enter leaves the focus on the search bar.
HandleSearchKeyEnterKeepsFocus(a, key) ==
    IF key = Key("Esc")
    THEN [a EXCEPT !.search_active = FALSE,
                   !.search_query = <<>>,
                   !.focus = "MenuTree",
                   !.selected_index = 0]
    ELSE IF key = Key("Enter")
    THEN [a EXCEPT !.search_active = FALSE]
    ELSE IF key = Key("Backspace")
    THEN [a EXCEPT !.search_query =
                       IF a.search_query = <<>> THEN <<>>
                       ELSE SubSeq(a.search_query, 1, Len(a.search_query) - 1),
                   !.selected_index = 0]
    ELSE IF key.code = "Char"
    THEN [a EXCEPT !.search_query = Append(a.search_query, key.c),
                   !.selected_index = 0]
    ELSE a

\* handle_search_key
HandleSearchKey(a, key) ==
    IF key = Key("Esc")
    THEN [a EXCEPT !.search_active = FALSE,
                   !.search_query = <<>>,
                   !.focus = "MenuTree",
                   !.selected_index = 0]
    ELSE IF key = Key("Enter")
    THEN [a EXCEPT !.search_active = FALSE, !.focus = "MenuTree"]
    ELSE IF key = Key("Backspace")
    THEN [a EXCEPT !.search_query =
                       IF a.search_query = <<>> THEN <<>>
                       ELSE SubSeq(a.search_query, 1, Len(a.search_query) - 1),
                   !.selected_index = 0]
    ELSE IF key.code = "Char"
    THEN [a EXCEPT !.search_query = Append(a.search_query, key.c),
                   !.selected_index = 0]
    ELSE a

\* A handle_key whose help modal quits on q instead of consuming it.
HandleKeyHelpQuits(a, table, content, key, written, save_ok) ==
    IF a.show_help_modal
    THEN Outcome([a EXCEPT !.show_help_modal = FALSE], table, content,
                 IF key = Char("q") THEN "Quit" ELSE "Continue")
    ELSE IF a.show_save_dialog
    THEN HandleSaveDialogKey(a, table, content, key, written, save_ok)
    ELSE IF a.search_active
    THEN Outcome(HandleSearchKey(a, key), table, content, "Continue")
    ELSE IF key \in {Char("q"), Char("Q")}
    THEN IF a.modified_symbols # <<>>
         THEN Outcome([a EXCEPT !.show_save_dialog = TRUE], table, content, "Continue")
         ELSE Outcome(a, table, content, "Quit")
    ELSE IF key \in {Char("s"), Char("S")}
    THEN IF save_ok
         THEN Saved(SaveConfig(a, table), table, written, "Continue")
         ELSE Outcome(a, table, content, "Err")
    ELSE IF key = Char("?")
    THEN Outcome([a EXCEPT !.show_help_modal = TRUE], table, content, "Continue")
    ELSE IF key = Char("/")
    THEN Outcome([a EXCEPT !.search_active = TRUE,
                           !.search_query = <<>>,
                           !.focus = "SearchBar"], table, content, "Continue")
    ELSE IF key \in {Key("Up"), Char("k")}
    THEN Outcome(MoveUp(a), table, content, "Continue")
    ELSE IF key \in {Key("Down"), Char("j")}
    THEN Outcome(MoveDown(a), table, content, "Continue")
    ELSE IF key \in {Key("Left"), Char("h"), Key("Esc")}
    THEN Outcome(GoBack(a), table, content, "Continue")
    ELSE IF key \in {Key("Right"), Char("l"), Key("Enter")}
    THEN Outcome(EnterSubmenu(a), table, content, "Continue")
    ELSE IF key = Char(" ")
    THEN LET toggled == ToggleCurrentItem(a, table)
         IN  Outcome(toggled.app, toggled.symbols, content, "Continue")
    ELSE IF key = Key("PageUp") THEN Outcome(PageUp(a), table, content, "Continue")
    ELSE IF key = Key("PageDown") THEN Outcome(PageDown(a), table, content, "Continue")
    ELSE IF key = Key("Home") THEN Outcome(JumpToFirst(a), table, content, "Continue")
    ELSE IF key = Key("End") THEN Outcome(JumpToLast(a), table, content, "Continue")
    ELSE Outcome(a, table, content, "Continue")

\* handle_key
HandleKey(a, table, content, key, written, save_ok) ==
    IF a.show_help_modal
    THEN Outcome([a EXCEPT !.show_help_modal = FALSE], table, content, "Continue")
    ELSE IF a.show_save_dialog
    THEN HandleSaveDialogKey(a, table, content, key, written, save_ok)
    ELSE IF a.search_active
    THEN Outcome(HandleSearchKey(a, key), table, content, "Continue")
    ELSE IF key \in {Char("q"), Char("Q")}
    THEN IF a.modified_symbols # <<>>
         THEN Outcome([a EXCEPT !.show_save_dialog = TRUE], table, content, "Continue")
         ELSE Outcome(a, table, content, "Quit")
    ELSE IF key \in {Char("s"), Char("S")}
    THEN IF save_ok
         THEN Saved(SaveConfig(a, table), table, written, "Continue")
         ELSE Outcome(a, table, content, "Err")
    ELSE IF key = Char("?")
    THEN Outcome([a EXCEPT !.show_help_modal = TRUE], table, content, "Continue")
    ELSE IF key = Char("/")
    THEN Outcome([a EXCEPT !.search_active = TRUE,
                           !.search_query = <<>>,
                           !.focus = "SearchBar"], table, content, "Continue")
    ELSE IF key \in {Key("Up"), Char("k")}
    THEN Outcome(MoveUp(a), table, content, "Continue")
    ELSE IF key \in {Key("Down"), Char("j")}
    THEN Outcome(MoveDown(a), table, content, "Continue")
    ELSE IF key \in {Key("Left"), Char("h"), Key("Esc")}
    THEN Outcome(GoBack(a), table, content, "Continue")
    ELSE IF key \in {Key("Right"), Char("l"), Key("Enter")}
    THEN Outcome(EnterSubmenu(a), table, content, "Continue")
    ELSE IF key = Char(" ")
    THEN LET toggled == ToggleCurrentItem(a, table)
         IN  Outcome(toggled.app, toggled.symbols, content, "Continue")
    ELSE IF key = Key("PageUp") THEN Outcome(PageUp(a), table, content, "Continue")
    ELSE IF key = Key("PageDown") THEN Outcome(PageDown(a), table, content, "Continue")
    ELSE IF key = Key("Home") THEN Outcome(JumpToFirst(a), table, content, "Continue")
    ELSE IF key = Key("End") THEN Outcome(JumpToLast(a), table, content, "Continue")
    ELSE Outcome(a, table, content, "Continue")

\* The value all_items holds for each Config and MenuConfig item.
ItemValues(a) ==
    [id \in {a.all_items[i].id : i \in
                {j \in 1..Len(a.all_items) :
                     a.all_items[j].kind \in {"Config", "MenuConfig"}}} |->
        a.all_items[CHOOSE i \in 1..Len(a.all_items) : a.all_items[i].id = id].value]

\* MenuConfigApp::new(entries, symbol_table) has returned Ok(app).
InitUI ==
    /\ \E arguments \in UIArguments :
           /\ symbols = TableOf(arguments[2])
           /\ app = NewApp(arguments[1], symbols)
    /\ file = <<>>
    /\ config = <<>>
    /\ pc = "created"
    /\ last = NoOp
    /\ parse = NoParse
    /\ baseline = ItemValues(app)

\* app.run(&mut terminal): the loop is entered.
Run ==
    /\ pc = "created"
    /\ pc' = "draw"
    /\ UNCHANGED <<symbols, file, config, last, app, parse, baseline>>

\* run: terminal.draw(|f| self.render(f))
Draw ==
    /\ pc = "draw"
    /\ app' = Render(app)
    /\ pc' = "poll"
    /\ UNCHANGED <<symbols, file, config, last, parse, baseline>>

\* run: event::poll timed out, or the event was not a key.
NoKey ==
    /\ pc = "poll"
    /\ pc' = "draw"
    /\ UNCHANGED <<symbols, file, config, last, app, parse, baseline>>

\* The keys whose handling calls save_config: only they write .config, in
\* some order of the table, and only they can fail.
SaveKeys == {Char("s"), Char("S"), Char("y"), Char("Y")}

\* run: self.handle_key(key)?, for the key that was read.  Quit leaves the
\* loop, an error leaves run.
KeyPressed(key) ==
    /\ pc = "poll"
    /\ (key.code = "Char" /\ app.search_active
        /\ ~app.show_help_modal /\ ~app.show_save_dialog)
       => Len(app.search_query) < MaxQuery
    /\ \E order \in (IF key \in SaveKeys THEN AllSymbolsOrders(symbols)
                    ELSE {<<>>}),
          save_ok \in (IF key \in SaveKeys THEN BOOLEAN ELSE {TRUE}) :
           LET out == HandleKey(app, symbols, file, key,
                                ConfigWriterWrite(symbols, order), save_ok)
           IN  /\ app' = out.app
               /\ symbols' = out.symbols
               /\ file' = out.file
               /\ pc' = IF out.result = "Continue" THEN "draw"
                        ELSE IF out.result = "Quit" THEN "quit"
                        ELSE "error"
               /\ baseline' = IF out.saved THEN ItemValues(out.app) ELSE baseline
    /\ UNCHANGED <<config, last, parse>>

KeyEvent == \E key \in Keys : KeyPressed(key)

NextUI == Run \/ Draw \/ NoKey \/ KeyEvent

SpecUI == InitUI /\ [][NextUI]_vars

-----------------------------------------------------------------------------
(* The parser's handling of `source` (spec 4.2): an inclusion stack of     *)
(* canonical paths, the entries of a sourced file spliced in place.        *)

\* The files of the source tree, by canonical path, and the texts a source
\* directive names a file by: a path, another spelling of the root's path,
\* and the path of a file that does not exist.
KconfigPath == "Kconfig"
SourcePaths == {"Kconfig", "arch/Kconfig", "lib/Kconfig"}
SourceTexts == SourcePaths \cup {"./Kconfig", "missing/Kconfig"}

\* The path is resolved against the source tree root to a canonical path.
Canonical(text) == IF text = "./Kconfig" THEN "Kconfig" ELSE text

\* The directives of a file: config entries, named after the file and their
\* place in it, and source directives.
ConfigDirective(path, k) == [kind |-> "config", name |-> <<path, k>>, text |-> ""]
SourceDirective(text) == [kind |-> "source", name |-> <<>>, text |-> text]

\* A file: an optional config, an optional source directive, an optional
\* config after it.
FileOf(path, shape) ==
    (IF shape[1] THEN <<ConfigDirective(path, 1)>> ELSE <<>>)
    \o (IF shape[2] # "none" THEN <<SourceDirective(shape[2])>> ELSE <<>>)
    \o (IF shape[3] THEN <<ConfigDirective(path, 2)>> ELSE <<>>)

FileShapes == BOOLEAN \X (SourceTexts \cup {"none"}) \X BOOLEAN

\* The source trees that are parsed.
SourceTrees ==
    {[path \in SourcePaths |-> FileOf(path, shapes[path])] :
        shapes \in [SourcePaths -> FileShapes]}

\* The paths on the inclusion stack.
OnStack(stack) == {stack[i].path : i \in 1..Len(stack)}

\* parse(root_path, source_tree_root) has opened the root file.
InitParse ==
    /\ \E files \in SourceTrees :
           parse = [files |-> files,
                    stack |-> <<[path |-> KconfigPath, pos |-> 1]>>,
                    entries |-> <<>>,
                    error |-> [kind |-> "none", path |-> ""]]
    /\ symbols = NewTable
    /\ file = <<>>
    /\ config = <<>>
    /\ pc = "parsing"
    /\ last = NoOp
    /\ app = NoApp
    /\ baseline = <<>>

\* The frame on top of the stack and the directive it is at.
TopFrame == parse.stack[Len(parse.stack)]
AtEnd == TopFrame.pos > Len(parse.files[TopFrame.path])
Directive == parse.files[TopFrame.path][TopFrame.pos]

\* The stack with the top frame moved past its directive.
Advanced(stack) == [stack EXCEPT ![Len(stack)].pos = stack[Len(stack)].pos + 1]

\* The entry put in front of the entries instead of at the place the parse
\* is at.
SpliceEntryFirst(entries, directive) == <<directive.name>> \o entries

\* The entry of a config directive, spliced at the place the parse is at.
SpliceEntry(entries, directive) == Append(entries, directive.name)

\* A config directive: its entry is added to the entries.
ParseConfig ==
    /\ pc = "parsing" /\ ~AtEnd /\ Directive.kind = "config"
    /\ parse' = [parse EXCEPT !.entries = SpliceEntry(parse.entries, Directive),
                              !.stack = Advanced(parse.stack)]
    /\ UNCHANGED <<symbols, file, config, pc, last, app, baseline>>

\* A source directive: the path is resolved; a file that does not exist and
\* a path already on the inclusion stack end the parse with an error; else
\* the file is opened on top of the stack.
ParseSource ==
    /\ pc = "parsing" /\ ~AtEnd /\ Directive.kind = "source"
    /\ LET path == Canonical(Directive.text) IN
       IF path \notin DOMAIN parse.files
       THEN /\ parse' = [parse EXCEPT !.error = [kind |-> "SourceNotFound", path |-> path]]
            /\ pc' = "error"
       ELSE IF path \in OnStack(parse.stack)
       THEN /\ parse' = [parse EXCEPT !.error = [kind |-> "CyclicSource", path |-> path]]
            /\ pc' = "error"
       ELSE /\ parse' = [parse EXCEPT !.stack =
                             Append(Advanced(parse.stack), [path |-> path, pos |-> 1])]
            /\ pc' = pc
    /\ UNCHANGED <<symbols, file, config, last, app, baseline>>

\* The end of a file: it is closed, and the parse is done when it was the
\* root.
EndOfFile ==
    /\ pc = "parsing" /\ AtEnd
    /\ parse' = [parse EXCEPT !.stack = SubSeq(parse.stack, 1, Len(parse.stack) - 1)]
    /\ pc' = IF Len(parse.stack) = 1 THEN "done" ELSE pc
    /\ UNCHANGED <<symbols, file, config, last, app, baseline>>

NextParse == ParseConfig \/ ParseSource \/ EndOfFile

\* The parser runs on its own thread of control: a step that can be taken
\* is taken.
SpecParse == InitParse /\ [][NextParse]_vars /\ WF_vars(NextParse)

-----------------------------------------------------------------------------
(* The claims about the serializers, under SpecIO.                         *)

\* The lines of the file after its header of n lines.
BodyLines(content, n) ==
    LET ls == Lines(content) IN {ls[i] : i \in (n + 1)..Len(ls)}

HasValue(n) == symbols[n].value # None

\* C1: write-then-read round trip: every Bool/Tristate/Int/Hex symbol with a
\* value set, "n" included, reads back from the written file as exactly its
\* stored value.
C1_WriteReadRoundTrip ==
    pc = "read" =>
        \A n \in DOMAIN symbols :
            (symbols[n].symbol_type \in {"Bool", "Tristate", "Int", "Hex"}
             /\ HasValue(n))
            => (n \in DOMAIN config /\ config[n] = symbols[n].value[1])

\* C7: string round trip: every String symbol with a value reads back from
\* the written file as exactly its stored content, whatever quotes, spaces
\* or '=' it holds, and also when it is "y", "m" or "n".
C7_StringRoundTrip ==
    pc = "read" =>
        \A n \in DOMAIN symbols :
            (symbols[n].symbol_type = "String" /\ HasValue(n))
            => (n \in DOMAIN config /\ config[n] = symbols[n].value[1])

IsNotSetLine(line) == StartsWith(line, HashConfig) /\ EndsWith(line, IsNotSet)
NotSetName(line) == SubSeq(line, Len(HashSpace) + 1, Len(line) - Len(IsNotSet))
IsAssignment(line) == ~StartsWith(Trim(line), <<"#">>) /\ Find(line, "=") # 0

\* C8: the reader maps CONFIG_X to "n" for every line "# CONFIG_X is not set"
\* of its input, and other '#' lines and empty lines add no entry: every
\* entry comes from a not-set line or from an assignment.
C8_ReaderNotSet ==
    pc \in {"read", "read_external"} =>
        LET ls == Lines(file) IN
        /\ \A i \in 1..Len(ls) :
               IsNotSetLine(ls[i]) =>
                   (NotSetName(ls[i]) \in DOMAIN config
                    /\ config[NotSetName(ls[i])] = VN)
        /\ Cardinality(DOMAIN config)
               <= Cardinality({i \in 1..Len(ls) :
                                 IsNotSetLine(ls[i]) \/ IsAssignment(ls[i])})

\* C9: auto.conf holds, after the header, exactly the lines <name>=<value> of
\* the symbols whose value is set and is not "n", the name as the table
\* stores it and the value unquoted.
C9_AutoConfContent ==
    pc = "auto_conf" =>
        BodyLines(file, 3) =
            {n \o <<"=">> \o symbols[n].value[1] :
               n \in {m \in DOMAIN symbols :
                        HasValue(m) /\ symbols[m].value[1] # VN}}

\* C10: autoconf.h holds, after the header, exactly `#define <name> 1` for
\* the symbols that are "y" or "m" and `#define <name> "<value>"` for those
\* with another value that is not "n", the name as the table stores it.
C10_AutoconfHContent ==
    pc = "autoconf_h" =>
        BodyLines(file, 4) =
            {Define \o n \o <<" ", "1">> :
               n \in {m \in DOMAIN symbols :
                        HasValue(m) /\ symbols[m].value[1] \in {VY, VM}}}
            \cup
            {Define \o n \o <<" ", "\"">> \o symbols[n].value[1] \o <<"\"">> :
               n \in {m \in DOMAIN symbols :
                        HasValue(m) /\ symbols[m].value[1] \notin {VY, VM, VN}}}

-----------------------------------------------------------------------------
(* The claims about the symbol table, under Spec.  The table holds no       *)
(* choice, select or depends-on relation; the Kconfig entries below are the *)
(* declarations the claims are about.                                       *)

\* choice { config CONFIG_A: bool; config CONFIG_B: bool }
ChoiceGroup == {CONFIG_A, CONFIG_B}

\* config CONFIG_A: select DEBUG
SelectEdges == {<<CONFIG_A, DEBUG>>}

\* config CONFIG_B: depends on CONFIG_A
DependsOnEdges == {<<CONFIG_B, CONFIG_A>>}

Digits == {"0", "1", "2", "3", "4", "5", "6", "7", "8", "9"}
HexDigits == Digits \cup {"a", "b", "c", "d", "e", "f", "A", "B", "C", "D", "E", "F"}

IsDecimal(v) ==
    LET d == IF v # <<>> /\ v[1] = "-" THEN Tail(v) ELSE v
    IN  d # <<>> /\ \A i \in 1..Len(d) : d[i] \in Digits

IsHexLiteral(v) ==
    /\ Len(v) > 2
    /\ v[1] = "0" /\ v[2] \in {"x", "X"}
    /\ \A i \in 3..Len(v) : v[i] \in HexDigits

\* v is a value of the type: Bool y/n, Tristate y/m/n, Int a decimal
\* integer, Hex a hex literal, String any text.
IsOfType(symbol_type, v) ==
    IF symbol_type = "Bool" THEN v \in {VY, VN}
    ELSE IF symbol_type = "Tristate" THEN v \in {VY, VM, VN}
    ELSE IF symbol_type = "Int" THEN IsDecimal(v)
    ELSE IF symbol_type = "Hex" THEN IsHexLiteral(v)
    ELSE TRUE

\* The value a symbol of the type reads as when it is off.
ZeroValue(symbol_type) ==
    IF symbol_type \in {"Bool", "Tristate"} THEN VN
    ELSE IF symbol_type = "String" THEN <<>>
    ELSE IF symbol_type = "Int" THEN <<"0">>
    ELSE <<"0", "x", "0">>

\* The type the Kconfig entries above declare each name with.
KconfigType(name) == IF name = DEBUG THEN "Tristate" ELSE "Bool"

\* The symbol is registered with the type its Kconfig entry declares and
\* holds no value or a value of that type.
Populated(name) ==
    /\ name \in DOMAIN symbols
    /\ symbols[name].symbol_type = KconfigType(name)
    /\ (symbols[name].value = None
        \/ IsOfType(KconfigType(name), symbols[name].value[1]))

\* C2: choice exclusivity: after a member of the choice is set to "y",
\* exactly one member of the choice reads "y" and every other member reads
\* as No (read "n", or has no value).
C2_ChoiceExclusivity ==
    (/\ \A m \in ChoiceGroup : Populated(m)
     /\ last.op = "set_value" /\ last.name \in ChoiceGroup /\ last.arg = VY)
    => /\ Cardinality({m \in ChoiceGroup : GetValue(symbols, m) = Some(VY)}) = 1
       /\ \A m \in ChoiceGroup \ {last.name} :
              GetValue(symbols, m) \in {None, Some(VN)}

\* C3: select floor: while the selecting symbol reads "y", the value read
\* for the selected symbol is "y", whatever was set for it before.
C3_SelectFloor ==
    \A e \in SelectEdges :
        (/\ Populated(e[1]) /\ Populated(e[2])
         /\ GetValue(symbols, e[1]) = Some(VY))
        => GetValue(symbols, e[2]) = Some(VY)

\* C4: visibility gating: while the symbol a symbol depends on is off, the
\* value read for the dependent symbol is its type's zero value (or none),
\* and while the dependency is satisfied the value read is the stored one.
C4_VisibilityGating ==
    \A e \in DependsOnEdges :
        (Populated(e[1]) /\ Populated(e[2])) =>
            /\ ~IsEnabled(symbols, e[2]) =>
                   GetValue(symbols, e[1])
                       \in {None, Some(ZeroValue(symbols[e[1]].symbol_type))}
            /\ IsEnabled(symbols, e[2]) =>
                   GetValue(symbols, e[1]) = symbols[e[1]].value

\* C5: type invariant: the stored value of every symbol is a value of the
\* symbol's declared type.
C5_TypeInvariant ==
    \A n \in DOMAIN symbols :
        symbols[n].value # None =>
            IsOfType(symbols[n].symbol_type, symbols[n].value[1])

\* C6: a set_value whose value is not of the symbol's declared type returns
\* an error and leaves the table as it was.
C6_RejectedSetAtomic ==
    [][(/\ last'.op = "set_value"
        /\ last'.name \in DOMAIN symbols
        /\ ~IsOfType(symbols[last'.name].symbol_type, last'.arg))
       => (last'.result = "error" /\ symbols' = symbols)]_vars

-----------------------------------------------------------------------------
(* The claims about the format of .config, under SpecIO.                   *)

\* The line the format gives a symbol: <name>=<value> for "y" and "m",
\* `# <name> is not set` for "n" and for no value, <name>="<value>" otherwise.
FormatLine(n) ==
    IF ~HasValue(n) \/ symbols[n].value[1] = VN
    THEN <<"#", " ">> \o n \o <<" ", "i", "s", " ", "n", "o", "t", " ", "s", "e", "t">>
    ELSE IF symbols[n].value[1] \in {VY, VM}
    THEN n \o <<"=">> \o symbols[n].value[1]
    ELSE n \o <<"=", "\"">> \o symbols[n].value[1] \o <<"\"">>

\* C11: the written file is the three header lines followed by exactly one
\* line per symbol of the table, in some order of the symbols, each line in
\* the form the format gives the symbol's value; no symbol is left out and
\* none is written twice.
C11_WriterFormat ==
    pc = "written" =>
        LET ls == Lines(file)
            k == Cardinality(DOMAIN symbols)
        IN  /\ Len(ls) = 3 + k
            /\ SubSeq(ls, 1, 3) = <<HashLine, GeneratedLine, HashLine>>
            /\ \E order \in AllSymbolsOrders(symbols) :
                   \A i \in 1..k : ls[3 + i] = FormatLine(order[i])

\* A table with a symbol of each form has been written.
C11_Witness ==
    /\ pc = "written"
    /\ \E a, b \in DOMAIN symbols :
           /\ HasValue(a) /\ symbols[a].value[1] = VM
           /\ HasValue(b) /\ symbols[b].value[1] = VHi
    /\ Len(Lines(file)) = 5

\* The text with the double quotes around it removed.
RECURSIVE Unquote(_)
Unquote(v) ==
    IF v # <<>> /\ Head(v) = "\"" THEN Unquote(Tail(v))
    ELSE IF v # <<>> /\ v[Len(v)] = "\"" THEN Unquote(SubSeq(v, 1, Len(v) - 1))
    ELSE v

\* NAME and value of a line NAME=value: the trimmed text before the first
\* '=' and the trimmed text after it, unquoted.
AssignedName(line) ==
    LET l == Trim(line) IN Trim(SubSeq(l, 1, Find(l, "=") - 1))
AssignedValue(line) ==
    LET l == Trim(line) IN Unquote(Trim(SubSeq(l, Find(l, "=") + 1, Len(l))))

\* The lines NAME=value of the file that was read.
AssignmentLines ==
    {i \in 1..Len(Lines(file)) : IsAssignment(Lines(file)[i])}

-----------------------------------------------------------------------------
(* The claims about registration and lookup, under Spec.                   *)

\* C13: a set_value for a name that is not registered does not fail, registers
\* no symbol and leaves every symbol's type and value as they were.
C13_UnknownNameIgnored ==
    [][(last'.op = "set_value" /\ last'.name \notin DOMAIN symbols)
       => /\ last'.result = "unit"
          /\ DOMAIN symbols' = DOMAIN symbols
          /\ \A n \in DOMAIN symbols :
                 /\ symbols'[n].symbol_type = symbols[n].symbol_type
                 /\ symbols'[n].value = symbols[n].value]_vars

\* set_value was called for a name that is not registered, while another
\* symbol is registered and has a value.
C13_Witness ==
    /\ last.op = "set_value"
    /\ last.name \notin DOMAIN symbols
    /\ \E n \in DOMAIN symbols : symbols[n].value # None

\* C14: the table holds one Symbol per registered name, under that name;
\* registering a name again, with the same or another type, keeps the type
\* declared first and the value stored; and no step removes a name or changes
\* a symbol's type.
C14_RegistrationStable ==
    /\ [](\A n \in DOMAIN symbols : symbols[n].name = n)
    /\ [][/\ DOMAIN symbols \subseteq DOMAIN symbols'
          /\ \A n \in DOMAIN symbols :
                 /\ symbols'[n].symbol_type = symbols[n].symbol_type
                 /\ (last'.op = "add_symbol" => symbols'[n] = symbols[n])]_vars

\* A registered name that holds a value was registered again with another
\* type.
C14_Witness ==
    /\ last.op = "add_symbol"
    /\ last.name \in DOMAIN symbols
    /\ symbols[last.name].symbol_type # last.arg
    /\ symbols[last.name].value # None

\* C15: for a name that is not registered get_value returns no value and
\* is_enabled is false; for a registered name is_enabled is true exactly when
\* the stored value is "y" or "m".
C15_UndeclaredReadsOff ==
    \A n \in Names :
        IF n \notin DOMAIN symbols
        THEN GetValue(symbols, n) = None /\ ~IsEnabled(symbols, n)
        ELSE IsEnabled(symbols, n) <=> symbols[n].value \in {<<VY>>, <<VM>>}

\* One name is not registered, one is registered and "m", one is registered
\* with a value that is neither "y" nor "m".
C15_Witness ==
    \E a, b, c \in Names :
        /\ a \notin DOMAIN symbols
        /\ b \in DOMAIN symbols /\ symbols[b].value = <<VM>>
        /\ c \in DOMAIN symbols /\ symbols[c].value = <<V42>>

-----------------------------------------------------------------------------
(* The claims about the application, under SpecUI.                         *)

IsConfigItem(item) == item.kind \in {"Config", "MenuConfig"}

\* The value the item is to show when the application is created: the
\* table's value parsed by the item's type, or the default of the type.
InitialisedValue(item) ==
    IF item.id \in DOMAIN symbols /\ symbols[item.id].value # None
    THEN ParseValue(symbols[item.id].value[1], item.symbol_type)
    ELSE IF item.symbol_type = "Bool" THEN CVBool(FALSE)
    ELSE IF item.symbol_type = "Tristate" THEN CVTristate("No")
    ELSE IF item.symbol_type = "String" THEN CVString(<<>>)
    ELSE IF item.symbol_type = "Int" THEN CVInt(0)
    ELSE CVHex(<<"0", "x", "0">>)

\* C16: when MenuConfigApp::new has returned, every Config and MenuConfig
\* item holds its initialised value in all_items and in every list of
\* menu_tree, and original_values holds exactly the items whose value came
\* from the table.
C16_InitialisedEverywhere ==
    pc = "created" =>
        /\ \A i \in 1..Len(app.all_items) :
               IsConfigItem(app.all_items[i]) =>
                   app.all_items[i].value = <<InitialisedValue(app.all_items[i])>>
        /\ \A key \in DOMAIN app.menu_tree :
               \A i \in 1..Len(app.menu_tree[key]) :
                   IsConfigItem(app.menu_tree[key][i]) =>
                       app.menu_tree[key][i].value
                           = <<InitialisedValue(app.menu_tree[key][i])>>
        /\ DOMAIN app.original_values =
               {app.all_items[i].id : i \in
                  {j \in 1..Len(app.all_items) :
                       /\ IsConfigItem(app.all_items[j])
                       /\ app.all_items[j].id \in DOMAIN symbols
                       /\ symbols[app.all_items[j].id].value # None}}

\* Neither a modal nor the search bar takes the keys.
NormalMode(a) == ~a.show_help_modal /\ ~a.show_save_dialog /\ ~a.search_active

\* C18: a key makes handle_key return Quit only when it is q or Q pressed in
\* normal mode with nothing modified, or y, Y, n or N pressed while the save
\* dialog is shown; and q or Q pressed in normal mode with something
\* modified opens the save dialog and returns Continue.
C18_QuitOnlyWhenAnswered ==
    [][/\ pc' = "quit" =>
              \A key \in Keys :
                  KeyPressed(key) =>
                      \/ /\ key \in {Char("q"), Char("Q")}
                         /\ NormalMode(app)
                         /\ app.modified_symbols = <<>>
                      \/ /\ key \in {Char("y"), Char("Y"), Char("n"), Char("N")}
                         /\ app.show_save_dialog
       /\ (NormalMode(app) /\ app.modified_symbols # <<>>) =>
              \A key \in {Char("q"), Char("Q")} :
                  KeyPressed(key) => (app'.show_save_dialog /\ pc' = "draw")]_vars

\* The application has quit with modifications that were not saved: q opened
\* the save dialog and the user answered it with n.
C18_Witness ==
    /\ pc = "quit"
    /\ app.modified_symbols # <<>>
    /\ ~app.show_save_dialog

\* The key makes handle_key call save_config: s or S in normal mode, y or Y
\* in the save dialog.
SavePressed(a, key) ==
    \/ key \in {Char("s"), Char("S")} /\ NormalMode(a)
    \/ key \in {Char("y"), Char("Y")} /\ a.show_save_dialog /\ ~a.show_help_modal

\* The application after the next draw and the key, the save (if the key
\* saves) succeeding.
AfterKey(a, table, content, key) ==
    HandleKey(Render(a), table, content, key, content, TRUE)

\* C19: after a save_config that succeeded, nothing is modified and
\* original_values maps every symbol that has a value to the table's value;
\* and after s in normal mode, a q pressed next returns Quit and leaves the
\* save dialog closed, and a Space pressed next that changes the value of a
\* symbol that was saved leaves it modified, with its new string: the toggle
\* is compared with the value that was saved.
C19_SaveResetsDirty ==
    [][\A key \in Keys :
           (SavePressed(app, key) /\ KeyPressed(key) /\ pc' # "error") =>
               /\ app'.modified_symbols = <<>>
               /\ \A n \in DOMAIN symbols' :
                      symbols'[n].value # None =>
                          /\ n \in DOMAIN app'.original_values
                          /\ app'.original_values[n] = symbols'[n].value[1]
               /\ pc' = "draw" =>
                      /\ AfterKey(app', symbols', file', Char("q")).result = "Quit"
                      /\ ~AfterKey(app', symbols', file', Char("q")).app.show_save_dialog
                      /\ LET after == AfterKey(app', symbols', file', Char(" "))
                         IN  \A n \in DOMAIN symbols' :
                                 (/\ symbols'[n].value # None
                                  /\ after.symbols[n].value # symbols'[n].value)
                                 => /\ n \in DOMAIN after.app.modified_symbols
                                    /\ after.app.modified_symbols[n]
                                           = after.symbols[n].value[1]]_vars

\* A value that was toggled to "n" has been saved: nothing is modified and
\* original_values holds the "n".
C19_Witness ==
    /\ pc = "draw"
    /\ app.status_message = <<SavedMessage>>
    /\ app.modified_symbols = <<>>
    /\ \E n \in DOMAIN symbols :
           /\ symbols[n].value = <<VN>>
           /\ n \in DOMAIN app.original_values
           /\ app.original_values[n] = VN

\* The value all_items holds for the item.
CurrentValue(id) ==
    app.all_items[CHOOSE i \in 1..Len(app.all_items) : app.all_items[i].id = id].value

\* C20: an item is in modified_symbols, and counted in "Changed: N", exactly
\* when its value differs from the value it had when the application was
\* created or last saved.
C20_DirtyTrackingExact ==
    pc \in {"draw", "poll", "quit"} =>
        /\ \A id \in DOMAIN baseline :
               id \in DOMAIN app.modified_symbols <=> CurrentValue(id) # baseline[id]
        /\ Cardinality(DOMAIN app.modified_symbols)
               = Cardinality({id \in DOMAIN baseline : CurrentValue(id) # baseline[id]})

-----------------------------------------------------------------------------
(* The claim about source recursion, under SpecParse.                      *)

\* The files a file names in its source directives.
SourcedBy(files, path) ==
    {Canonical(files[path][i].text) :
        i \in {j \in 1..Len(files[path]) : files[path][j].kind = "source"}}
    \cap DOMAIN files

\* The files reached from a set of files through source directives.
RECURSIVE SourceClosure(_, _)
SourceClosure(files, paths) ==
    LET more == paths \cup UNION {SourcedBy(files, p) : p \in paths}
    IN  IF more = paths THEN paths ELSE SourceClosure(files, more)

\* A file sources itself, directly or transitively.
SourcesItself(files, path) == path \in SourceClosure(files, SourcedBy(files, path))

\* The root reaches a file that sources itself.
CyclicFrom(files, root) == \E p \in SourceClosure(files, {root}) : SourcesItself(files, p)

\* The entries of a file from its i-th directive on, those of a sourced file
\* in the place of its source directive.
RECURSIVE NestedEntries(_, _, _, _)
NestedEntries(files, path, i, open) ==
    IF i > Len(files[path]) THEN <<>>
    ELSE LET d == files[path][i]
             c == Canonical(d.text)
         IN  (IF d.kind = "config" THEN <<d.name>>
              ELSE IF c \in (DOMAIN files) \ open
                   THEN NestedEntries(files, c, 1, open \cup {c})
                   ELSE <<>>)
             \o NestedEntries(files, path, i + 1, open)

\* No path is on the inclusion stack twice.
StackDistinct ==
    \A i, j \in 1..Len(parse.stack) : parse.stack[i].path = parse.stack[j].path => i = j

\* C17: source recursion terminates. Every parse ends, done or with an
\* error; no path is ever on the inclusion stack twice; a parse that is done
\* has met no file that sources itself and yields the entries of each sourced
\* file in the place of its source directive, in declaration order; a
\* cyclic-source error names a path that is on the inclusion stack and that
\* sources itself; and the parse of a root that reaches a file sourcing
\* itself ends with a cyclic-source error.
C17_SourceRecursionTerminates ==
    /\ [](StackDistinct)
    /\ []((pc = "done") =>
            /\ ~CyclicFrom(parse.files, KconfigPath)
            /\ parse.stack = <<>>
            /\ parse.error.kind = "none"
            /\ parse.entries = NestedEntries(parse.files, KconfigPath, 1, {KconfigPath}))
    /\ []((pc = "error" /\ parse.error.kind = "CyclicSource") =>
            /\ parse.error.path \in OnStack(parse.stack)
            /\ SourcesItself(parse.files, parse.error.path))
    /\ <>(pc \in {"done", "error"})
    /\ (CyclicFrom(parse.files, KconfigPath)
            => <>(pc = "error" /\ parse.error.kind = "CyclicSource"))

\* The root sources arch/Kconfig, which sources lib/Kconfig, each between
\* two configs of its own, and the parse is done.
C17_Witness ==
    /\ pc = "done"
    /\ parse.files["Kconfig"] = FileOf("Kconfig", <<TRUE, "arch/Kconfig", TRUE>>)
    /\ parse.files["arch/Kconfig"] = FileOf("arch/Kconfig", <<TRUE, "lib/Kconfig", TRUE>>)
    /\ parse.files["lib/Kconfig"] = FileOf("lib/Kconfig", <<TRUE, "none", TRUE>>)
    /\ parse.entries = << <<"Kconfig", 1>>, <<"arch/Kconfig", 1>>, <<"lib/Kconfig", 1>>,
                          <<"lib/Kconfig", 2>>, <<"arch/Kconfig", 2>>, <<"Kconfig", 2>> >>

-----------------------------------------------------------------------------
(* The claims about the key handlers of the application, under SpecUI.     *)

\* The message toggle_current_item leaves for the item.
ToggledMessage(id) == Some(<<" ">> \o id \o ToggledSuffix)

\* The item has been toggled: it is modified, or the last toggle was on it.
Toggled(id) ==
    id \in DOMAIN app.modified_symbols \/ app.status_message = ToggledMessage(id)

\* The string that denotes a value of an item: "y" for true and Yes, "m" for
\* Module, "n" for false and No.
Denoted(value) ==
    IF value.variant = "Bool" THEN (IF value.b THEN VY ELSE VN)
    ELSE IF value.t = "Yes" THEN VY
    ELSE IF value.t = "Module" THEN VM
    ELSE VN

\* all_items, every list of menu_tree that contains the item, and the table
\* hold the same value for the item.
InStep(id) ==
    LET value == CurrentValue(id) IN
    /\ value # None
    /\ \A key \in DOMAIN app.menu_tree :
           \A i \in 1..Len(app.menu_tree[key]) :
               app.menu_tree[key][i].id = id => app.menu_tree[key][i].value = value
    /\ id \in DOMAIN symbols
    /\ symbols[id].value = Some(Denoted(value[1]))

\* C21: the application and the table stay in step: for every item that has
\* been toggled, all_items, every list of menu_tree containing it and the
\* table hold the same value, whatever table the application was created
\* with.
C21_UIAndTableInStep ==
    pc \in {"draw", "poll", "quit"} =>
        \A id \in DOMAIN baseline : Toggled(id) => InStep(id)

\* The save dialog takes the key.
DialogShown(a) == a.show_save_dialog /\ ~a.show_help_modal

\* The values of the items, those of the table and the modifications are
\* what they were.
ValuesUnchanged ==
    /\ app'.all_items = app.all_items
    /\ app'.menu_tree = app.menu_tree
    /\ app'.modified_symbols = app.modified_symbols
    /\ symbols' = symbols

\* .config holds the table as ConfigWriter::write writes it.
ConfigWritten(content, table) ==
    \E order \in AllSymbolsOrders(table) : content = ConfigWriterWrite(table, order)

\* The dialog's answers n, N and Esc, and every key that is no answer.
DialogOtherKeys(key) ==
    /\ key \in {Char("n"), Char("N")} =>
           /\ pc' = "quit"
           /\ app' = [app EXCEPT !.show_save_dialog = FALSE]
           /\ file' = file /\ symbols' = symbols
    /\ key = Key("Esc") =>
           /\ pc' = "draw"
           /\ app' = [app EXCEPT !.show_save_dialog = FALSE]
           /\ file' = file /\ ValuesUnchanged
    /\ key \notin {Char("y"), Char("Y"), Char("n"), Char("N"), Key("Esc")} =>
           /\ pc' = "draw"
           /\ app' = app /\ file' = file /\ symbols' = symbols

\* The dialog's answer y or Y has saved: .config is written, nothing is
\* modified, the dialog is closed and handle_key returns Quit.
DialogSaved ==
    /\ pc' = "quit"
    /\ ~app'.show_save_dialog
    /\ app'.modified_symbols = <<>>
    /\ ConfigWritten(file', symbols)
    /\ symbols' = symbols
    /\ app'.all_items = app.all_items /\ app'.menu_tree = app.menu_tree

\* C22 as stated: while the save dialog is shown, y or Y saves, closes the
\* dialog and returns Quit; n or N closes it and returns Quit, .config and
\* the table as they were; Esc closes it and returns Continue, nothing
\* modified or changed; any other key leaves the dialog open and the state
\* as it was.
C22_SaveDialogProtocol ==
    [][\A key \in Keys :
           (DialogShown(app) /\ KeyPressed(key)) =>
               /\ key \in {Char("y"), Char("Y")} => DialogSaved
               /\ DialogOtherKeys(key)]_vars

\* C22, amended: y or Y saves, closes the dialog and returns Quit when
\* .config can be written; when it cannot, handle_key returns the error, the
\* dialog is still open and nothing is saved.
C22_SaveDialogProtocolUnlessWriteFails ==
    [][\A key \in Keys :
           (DialogShown(app) /\ KeyPressed(key)) =>
               /\ key \in {Char("y"), Char("Y")} =>
                      \/ DialogSaved
                      \/ /\ pc' = "error"
                         /\ app' = app /\ symbols' = symbols /\ file' = file
               /\ DialogOtherKeys(key)]_vars

\* y was pressed in the save dialog and .config could not be written: run
\* has ended with the error, the dialog open and the modifications unsaved.
C22_Witness ==
    /\ pc = "error"
    /\ app.show_save_dialog
    /\ app.modified_symbols # <<>>

\* Space pressed on the application as it is when a key is read.
AfterSpace(a, table) == HandleKey(a, table, file, Char(" "), file, TRUE)

\* The item a key handler picks: the one at selected_index in the displayed
\* list, None when the list is empty or the index is past its end.
SelectedItem(a) ==
    LET items == DisplayedItems(a) IN
    IF items = <<>> \/ a.selected_index >= Len(items) THEN None
    ELSE Some(items[a.selected_index + 1])

\* The item's value is one that Space changes.
Toggles(item) ==
    item # None /\ item[1].value # None
    /\ item[1].value[1].variant \in {"Bool", "Tristate"}

\* The value after the one in the cycle of its type.
NextInCycle(value) ==
    IF value.variant = "Bool" THEN CVBool(~value.b)
    ELSE CVTristate(IF value.t = "No" THEN "Yes"
                    ELSE IF value.t = "Yes" THEN "Module" ELSE "No")

\* Space pressed k times.
RECURSIVE Spaces(_, _, _)
Spaces(a, table, k) ==
    IF k = 0 THEN Outcome(a, table, file, "Continue")
    ELSE LET before == Spaces(a, table, k - 1)
         IN  AfterSpace(before.app, before.symbols)

\* The length of the cycle of a value's type.
CycleLength(value) == IF value.variant = "Bool" THEN 2 ELSE 3

\* C23: Space flips the Bool value and advances the Tristate value of the
\* selected item in the cycle No, Yes, Module; two toggles of a Bool and
\* three of a Tristate restore the item's value and the table's string of
\* it; Space on any other item, on an item without a value, on an empty
\* list or with the index out of range changes nothing.
C23_ToggleCycle ==
    (pc = "poll" /\ NormalMode(app)) =>
        LET item == SelectedItem(app)
            once == AfterSpace(app, symbols)
        IN  IF Toggles(item)
            THEN /\ SelectedItem(once.app) = Some([item[1] EXCEPT !.value =
                                                  Some(NextInCycle(item[1].value[1]))])
                 /\ LET round == Spaces(app, symbols, CycleLength(item[1].value[1]))
                    IN  /\ SelectedItem(round.app) = item
                        /\ GetValue(round.symbols, item[1].id)
                               = GetValue(symbols, item[1].id)
            ELSE /\ once.app = app
                 /\ once.symbols = symbols

\* C24: while the help modal is shown, a key only closes it: handle_key
\* returns Continue, the key's action is not performed and nothing else of
\* the application, the table or .config changes.
C24_HelpModalConsumesKey ==
    [][\A key \in Keys :
           (app.show_help_modal /\ KeyPressed(key)) =>
               /\ app' = [app EXCEPT !.show_help_modal = FALSE]
               /\ pc' = "draw"
               /\ symbols' = symbols
               /\ file' = file
               /\ baseline' = baseline]_vars

\* The help modal is shown over a modified configuration with a toggling
\* item selected, and q, s, Space, Down and / each only close it.
C24_Witness ==
    /\ pc = "poll"
    /\ app.show_help_modal
    /\ app.modified_symbols # <<>>
    /\ Toggles(SelectedItem(app))
    /\ \A key \in {Char("q"), Char("s"), Char(" "), Char("/"), Key("Down")} :
           AfterKey(app, symbols, file, key)
               = Outcome([app EXCEPT !.show_help_modal = FALSE], symbols, file, "Continue")

\* The number of the three modes that are on.
ModesOn(a) ==
    Cardinality({mode \in {"help", "dialog", "search"} :
                    \/ mode = "help" /\ a.show_help_modal
                    \/ mode = "dialog" /\ a.show_save_dialog
                    \/ mode = "search" /\ a.search_active})

\* C25: in every state reached from MenuConfigApp::new by key events, at
\* most one of the help modal, the save dialog and the search mode is on;
\* the focus is SearchBar exactly when the search mode is on and MenuTree
\* otherwise; and the save dialog is open only while something is modified.
C25_ModeExclusivity ==
    /\ ModesOn(app) <= 1
    /\ app.focus = (IF app.search_active THEN "SearchBar" ELSE "MenuTree")
    /\ app.show_save_dialog => app.modified_symbols # <<>>

\* The save dialog is open, after a search that was left with Enter and a
\* toggle: the search mode is off, its query kept, the focus on the menu.
C25_Witness ==
    /\ pc = "poll"
    /\ app.show_save_dialog
    /\ ~app.search_active
    /\ app.search_query # <<>>
    /\ app.focus = "MenuTree"

\* The search bar takes the key.
SearchMode(a) == a.search_active /\ ~a.show_help_modal /\ ~a.show_save_dialog

\* The application with the fields the search bar writes put to given values.
WithSearch(a, active, query, index) ==
    [a EXCEPT !.search_active = active,
              !.search_query = query,
              !.focus = IF active THEN "SearchBar" ELSE "MenuTree",
              !.selected_index = index]

\* All but the last character.
Popped(query) == IF query = <<>> THEN <<>> ELSE SubSeq(query, 1, Len(query) - 1)

\* C26: `/` in normal mode enters the search mode with an empty query; in
\* the search mode a character key is only appended to the query, with the
\* selection put on the first item; Backspace removes the last character of
\* the query, with the selection put on the first item; Esc leaves the mode
\* with the query cleared and the selection on the first item; Enter leaves
\* it with the query and the selection kept; any other key does nothing; and
\* no key quits, saves, changes a value or opens a modal.
C26_SearchCapturesKeys ==
    [][\A key \in Keys :
               /\ (NormalMode(app) /\ key = Char("/") /\ KeyPressed(key)) =>
                      /\ app' = WithSearch(app, TRUE, <<>>, app.selected_index)
                      /\ pc' = "draw"
               /\ (SearchMode(app) /\ KeyPressed(key)) =>
                      /\ pc' = "draw"
                      /\ symbols' = symbols
                      /\ file' = file
                      /\ baseline' = baseline
                      /\ app' =
                           IF key.code = "Char"
                           THEN WithSearch(app, TRUE, Append(app.search_query, key.c), 0)
                           ELSE IF key = Key("Backspace")
                           THEN WithSearch(app, TRUE, Popped(app.search_query), 0)
                           ELSE IF key = Key("Esc")
                           THEN WithSearch(app, FALSE, <<>>, 0)
                           ELSE IF key = Key("Enter")
                           THEN WithSearch(app, FALSE, app.search_query, app.selected_index)
                           ELSE app]_vars

\* q was typed into the search bar while something was modified: it is the
\* query, the application runs on and no dialog is open.
C26_Witness ==
    /\ pc = "draw"
    /\ app.search_active
    /\ app.search_query = <<"q">>
    /\ app.selected_index = 0
    /\ app.modified_symbols # <<>>
    /\ ~app.show_save_dialog

Min(x, y) == IF x < y THEN x ELSE y
Max(x, y) == IF x > y THEN x ELSE y

\* The index a navigation key leaves in a list of len items, len > 0.
IndexAfter(key, index, len) ==
    IF key = Key("Up") THEN Max(index - 1, 0)
    ELSE IF key = Key("Down") THEN Min(index + 1, len - 1)
    ELSE IF key = Key("PageUp") THEN Max(index - PageSize, 0)
    ELSE IF key = Key("PageDown") THEN Min(index + PageSize, len - 1)
    ELSE IF key = Key("Home") THEN 0
    ELSE len - 1

NavigationKeys ==
    {Key("Up"), Key("Down"), Key("PageUp"), Key("PageDown"), Key("Home"), Key("End")}

\* The selection is on an item of the displayed list, if there is one.
InRange(a) ==
    DisplayedItems(a) # <<>> => a.selected_index < Len(DisplayedItems(a))

\* C27: in the run loop a key handler sees a selected index inside the
\* displayed list whenever the list has items; Up, Down, PageUp, PageDown,
\* Home and End leave it inside the list, Up at the first and Down at the
\* last item doing nothing, PageUp and PageDown stopping at the ends; and
\* after any key, Enter in the search mode and a change of menu included, the
\* index is inside the list that is then displayed when the next key is
\* handled.
C27_SelectionInRange ==
    /\ [](pc = "poll" => InRange(app))
    /\ [][(NormalMode(app) /\ DisplayedItems(app) # <<>>) =>
                 \A key \in NavigationKeys :
                     KeyPressed(key) =>
                         /\ app' = [app EXCEPT !.selected_index =
                                        IndexAfter(key, app.selected_index,
                                                   Len(DisplayedItems(app)))]
                         /\ app'.selected_index < Len(DisplayedItems(app'))]_vars

\* The selection has been moved to the second and last item of the menu's
\* list, the one with the submenu.
C27_Witness ==
    /\ pc = "draw"
    /\ NormalMode(app)
    /\ app.current_path = <<>>
    /\ Len(DisplayedItems(app)) = 2
    /\ app.selected_index = 1
    /\ app.status_message = None

-----------------------------------------------------------------------------
(* The claim about the frame of set_value, under Spec.                     *)

\* C28: after set_value(n, v) for a registered name n, get_value(n) returns
\* v, whatever the value before and the declared type; n keeps its name, its
\* type and its is_choice flag, every other symbol is as it was, and no
\* symbol is added or removed.
C28_SetValueTouchesOneSymbol ==
    [][(last'.op = "set_value" /\ last'.name \in DOMAIN symbols)
       => /\ GetValue(symbols', last'.name) = Some(last'.arg)
          /\ DOMAIN symbols' = DOMAIN symbols
          /\ symbols'[last'.name].name = symbols[last'.name].name
          /\ symbols'[last'.name].symbol_type = symbols[last'.name].symbol_type
          /\ symbols'[last'.name].is_choice = symbols[last'.name].is_choice
          /\ \A n \in DOMAIN symbols \ {last'.name} : symbols'[n] = symbols[n]]_vars

\* set_value has stored "42" in a Bool symbol, while another symbol holds
\* another value and a third has none.
C28_Witness ==
    /\ last.op = "set_value"
    /\ last.name \in DOMAIN symbols
    /\ symbols[last.name].symbol_type = "Bool"
    /\ last.arg = V42
    /\ symbols[last.name].value = Some(V42)
    /\ \E n \in DOMAIN symbols \ {last.name} :
           symbols[n].value # None /\ symbols[n].value # Some(V42)
    /\ \E n \in DOMAIN symbols : symbols[n].value = None

====
